---- MODULE Spec2Model ----
(***************************************************************************)
(* The two example notebooks of the repository,                            *)
(*   examples/simple_gp_regression.ipynb       ("simple")                  *)
(*   examples/kissgp_gp_regression_cuda.ipynb  ("kiss")                    *)
(* as one state machine: a top-to-bottom run of the code cells, one action *)
(* per statement.  Library calls (torch, gpytorch, matplotlib) are opaque  *)
(* atomic steps: what they return is drawn from small sets, and the calls  *)
(* inside the training loop may raise.  An exception ends the run of the   *)
(* simple notebook; in the kiss notebook the %time magic around train()    *)
(* catches it, and the run goes on with the cells that follow.             *)
(*                                                                         *)
(* Real numbers are exact rationals <<numerator, denominator>>; a tensor   *)
(* is a sequence.  The names train_x, test_x and train_y hold the call     *)
(* that built them; Tensor and Labels give the values.                     *)
(***************************************************************************)
EXTENDS Integers, Sequences, FiniteSets

VARIABLES
    nb,             \* which notebook runs: "simple" or "kiss"
    pc,             \* the statement about to execute
    use_toeplitz,   \* gpytorch.settings.use_toeplitz: the value in effect,
                    \* on until a use_toeplitz(False) context turns it off
    saved_toeplitz, \* values saved by the open use_toeplitz(...) contexts
    fast_pred_var,  \* whether a gpytorch.fast_pred_var() context is open
    train_x, train_y, test_x,
    likelihood,     \* the GaussianLikelihood object, None before it exists
    model,          \* the ExactGP subclass instance, None before it exists
    params,         \* parameter name -> number of optimizer updates applied
    optimizer,      \* the Adam object, None before it exists
    mll,            \* the ExactMarginalLogLikelihood object
    mll_builds,     \* how many times an mll object was constructed
    i,              \* the loop variable of the training loop, -1 before it
    grad,           \* backward passes accumulated in the .grad buffers
    applied,        \* backward passes held by .grad at the last optimizer.step
    output,         \* the model output of the current iteration
    mll_ret,        \* value returned by the last mll(output, train_y)
    loss,
    calls,          \* completed calls of each loop statement
    printed,        \* the progress lines printed so far
    observed_ax,    \* the matplotlib axes, None before plt.subplots
    observed_pred,  \* likelihood(model(test_x)), None before it exists
    plot,           \* what ax_plot drew, None before it
    trace,          \* the phases entered so far, in order
    raised,         \* the exception that ended the run, None without one
    traceback       \* the exception that %time caught and displayed (kiss),
                    \* None without one

vars == <<nb, pc, use_toeplitz, saved_toeplitz, fast_pred_var, train_x,
          train_y, test_x, likelihood, model, params, optimizer, mll,
          mll_builds, i, grad, applied, output, mll_ret, loss, calls,
          printed, observed_ax, observed_pred, plot, trace, raised,
          traceback>>

\* Python's None, and every name not bound yet.
None == [is_none |-> TRUE]

Notebooks == {"simple", "kiss"}

(***************************************************************************)
(* Bounds of the model: the ranges from which the values returned by the   *)
(* library are drawn.                                                      *)
(***************************************************************************)
MaxMll == 1
MaxMean == 1
MaxStd == 1

MllValues == (0 - MaxMll)..MaxMll
MeanValues == (0 - MaxMean)..MaxMean
StdValues == 0..MaxStd

(***************************************************************************)
(* Rationals.                                                              *)
(***************************************************************************)
RatEq(a, b) == a[1] * b[2] = b[1] * a[2]
RatMul(a, b) == <<a[1] * b[1], a[2] * b[2]>>
RatSub(a, b) == <<a[1] * b[2] - b[1] * a[2], a[2] * b[2]>>

(***************************************************************************)
(* Program constants.                                                      *)
(***************************************************************************)
training_iter == 50
training_iterations == 20
SimpleTrainN == 11
SimpleTestN == 51
KissTrainN == 1000
KissTestN == 51

TrainingIter(n) == IF n = "simple" THEN training_iter ELSE training_iterations

\* torch.linspace(start, end, steps): steps points from start to end, both
\* included, evenly spaced.
linspace(start, end, steps) ==
    [k \in 1..steps |->
        <<start * (steps - 1) + (k - 1) * (end - start), steps - 1>>]

\* The value of a tensor built by torch.linspace(start, end, steps).
Tensor(x) == linspace(x.start, x.end, x.steps)

\* torch.linspace(0, 1, 10): ten points, 1/9 apart.
SimpleTrainX_TenPoints == [start |-> 0, end |-> 1, steps |-> 10]
SimpleTrainX == [start |-> 0, end |-> 1, steps |-> SimpleTrainN]
KissTrainX == [start |-> 0, end |-> 1, steps |-> KissTrainN]
SimpleTestX == [start |-> 0, end |-> 1, steps |-> SimpleTestN]
KissTestX == [start |-> 0, end |-> 1, steps |-> KissTestN]

\* The factor that multiplies torch.randn(...) in train_y.
SimpleNoiseScale == <<2, 10>>
KissNoiseScale == <<2, 10>>
\* The multiple of pi inside the sine: sin(x * (2 * pi)), sin(x * (4 * pi)).
SimpleFreq == 2
KissFreq == 4
\* The variance b of the N(0, b) that each notebook states for the noise.
SimpleStatedNoise == <<2, 10>>
KissStatedNoise == <<4, 100>>

NoiseScale(n) == IF n = "simple" THEN SimpleNoiseScale ELSE KissNoiseScale
StatedNoise(n) == IF n = "simple" THEN SimpleStatedNoise ELSE KissStatedNoise

\* train_y = sin(train_x * (freq * pi)) + randn(train_x.size()) * scale,
\* elementwise: label k is sin(freq * pi * x_k) + scale * z_k with z_k a
\* standard normal sample, kept symbolic.
Labels(y) ==
    LET t == Tensor(y.x)
    IN  [k \in 1..Len(t) |-> [x |-> t[k], freq |-> y.freq, scale |-> y.scale]]

(***************************************************************************)
(* Objects.  A module starts in training mode; .train() and .eval() set    *)
(* the flag on the module and on its sub-modules.  The likelihood is a     *)
(* sub-module of the model (model.likelihood), so model.parameters()       *)
(* includes the likelihood's parameters.                                   *)
(***************************************************************************)
GaussianLikelihood == [training |-> TRUE, own |-> {"likelihood.log_noise"}]

ExactGPModel ==
    [training |-> TRUE,
     own |-> {"mean_module.constant", "covar_module.log_lengthscale"}]

GPRegressionModel ==
    [training |-> TRUE,
     own |-> {"mean_module.constant", "base_covar_module.log_lengthscale",
              "log_outputscale"}]

\* model.parameters() without the parameters of the likelihood.
Parameters_ModelOnly(m, lik) == m.own

\* model.parameters(): the model's own parameters and its sub-modules'.
Parameters(m, lik) == m.own \cup lik.own

\* Registering new parameters: each starts with no update applied.
Register(ps, names) ==
    [p \in (DOMAIN ps) \cup names |-> IF p \in DOMAIN ps THEN ps[p] ELSE 0]

SetMode(obj, training) == [obj EXCEPT !.training = training]

\* model(x): in train mode the prior returned by forward, in eval mode the
\* posterior; the record keeps the settings in effect during the call.
ModelCall(x_name) ==
    [input |-> x_name,
     kind |-> IF model.training THEN "prior" ELSE "posterior",
     model_training |-> model.training,
     likelihood_training |-> likelihood.training,
     toeplitz |-> use_toeplitz,
     iter |-> i,
     steps |-> calls.step]

\* rand_var.confidence_region(): 2 standard deviations below and above
\* the mean.
confidence_region(rv) ==
    [lower |-> [k \in 1..Len(rv.mean) |-> rv.mean[k] - 2 * rv.std[k]],
     upper |-> [k \in 1..Len(rv.mean) |-> rv.mean[k] + 2 * rv.std[k]]]

(***************************************************************************)
(* The phases of a run.                                                    *)
(***************************************************************************)
PhaseOrder ==
    <<"dataset", "instantiate", "train_mode", "training_loop", "eval_mode",
      "predict", "plot">>

Enter(p) ==
    IF trace # <<>> /\ trace[Len(trace)] = p THEN trace ELSE Append(trace, p)

NoCalls ==
    [loop |-> 0, zero_grad |-> 0, forward |-> 0, mll |-> 0, backward |-> 0,
     print |-> 0, step |-> 0]

Init ==
    /\ nb \in Notebooks
    /\ pc = "train_x"
    /\ use_toeplitz = TRUE
    /\ saved_toeplitz = <<>>
    /\ fast_pred_var = FALSE
    /\ train_x = None
    /\ train_y = None
    /\ test_x = None
    /\ likelihood = None
    /\ model = None
    /\ params = [p \in {} |-> 0]
    /\ optimizer = None
    /\ mll = None
    /\ mll_builds = 0
    /\ i = -1
    /\ grad = 0
    /\ applied = 0
    /\ output = None
    /\ mll_ret = 0
    /\ loss = 0
    /\ calls = NoCalls
    /\ printed = <<>>
    /\ observed_ax = None
    /\ observed_pred = None
    /\ plot = None
    /\ trace = <<>>
    /\ raised = None
    /\ traceback = None

(***************************************************************************)
(* Data cell.                                                              *)
(***************************************************************************)
MakeTrainX ==
    /\ pc = "train_x"
    /\ train_x' = IF nb = "simple" THEN SimpleTrainX ELSE KissTrainX
    /\ trace' = Enter("dataset")
    /\ pc' = "train_y"
    /\ UNCHANGED <<nb, use_toeplitz, saved_toeplitz, fast_pred_var, train_y,
                   test_x, likelihood, model, params, optimizer, mll,
                   mll_builds, i, grad, applied, output, mll_ret, loss, calls,
                   printed, observed_ax, observed_pred, plot, raised,
                   traceback>>

MakeTrainY ==
    /\ pc = "train_y"
    /\ train_y' = IF nb = "simple"
                  THEN [x |-> train_x, freq |-> SimpleFreq,
                        scale |-> SimpleNoiseScale]
                  ELSE [x |-> train_x, freq |-> KissFreq,
                        scale |-> KissNoiseScale]
    /\ trace' = Enter("dataset")
    /\ pc' = "likelihood"
    /\ UNCHANGED <<nb, use_toeplitz, saved_toeplitz, fast_pred_var, train_x,
                   test_x, likelihood, model, params, optimizer, mll,
                   mll_builds, i, grad, applied, output, mll_ret, loss, calls,
                   printed, observed_ax, observed_pred, plot, raised,
                   traceback>>

(***************************************************************************)
(* Model cell.                                                             *)
(***************************************************************************)
MakeLikelihood ==
    /\ pc = "likelihood"
    /\ likelihood' = GaussianLikelihood
    /\ params' = Register(params, GaussianLikelihood.own)
    /\ trace' = Enter("instantiate")
    /\ pc' = "model"
    /\ UNCHANGED <<nb, use_toeplitz, saved_toeplitz, fast_pred_var, train_x,
                   train_y, test_x, model, optimizer, mll, mll_builds, i,
                   grad, applied, output, mll_ret, loss, calls, printed,
                   observed_ax, observed_pred, plot, raised,
                   traceback>>

MakeModel ==
    /\ pc = "model"
    /\ model' = IF nb = "simple" THEN ExactGPModel ELSE GPRegressionModel
    /\ params' = Register(params, model'.own)
    /\ trace' = Enter("instantiate")
    /\ pc' = "model_train"
    /\ UNCHANGED <<nb, use_toeplitz, saved_toeplitz, fast_pred_var, train_x,
                   train_y, test_x, likelihood, optimizer, mll, mll_builds, i,
                   grad, applied, output, mll_ret, loss, calls, printed,
                   observed_ax, observed_pred, plot, raised,
                   traceback>>

(***************************************************************************)
(* Training cell.                                                          *)
(***************************************************************************)
\* model.train(): the model and its sub-modules, the likelihood among them.
ModelTrain ==
    /\ pc = "model_train"
    /\ model' = SetMode(model, TRUE)
    /\ likelihood' = SetMode(likelihood, TRUE)
    /\ trace' = Enter("train_mode")
    /\ pc' = "likelihood_train"
    /\ UNCHANGED <<nb, use_toeplitz, saved_toeplitz, fast_pred_var, train_x,
                   train_y, test_x, params, optimizer, mll, mll_builds, i,
                   grad, applied, output, mll_ret, loss, calls, printed,
                   observed_ax, observed_pred, plot, raised,
                   traceback>>

LikelihoodTrain ==
    /\ pc = "likelihood_train"
    /\ likelihood' = SetMode(likelihood, TRUE)
    /\ trace' = Enter("train_mode")
    /\ pc' = "optimizer"
    /\ UNCHANGED <<nb, use_toeplitz, saved_toeplitz, fast_pred_var, train_x,
                   train_y, test_x, model, params, optimizer, mll, mll_builds,
                   i, grad, applied, output, mll_ret, loss, calls, printed,
                   observed_ax, observed_pred, plot, raised,
                   traceback>>

\* torch.optim.Adam([{'params': model.parameters()}], lr=0.1)
MakeOptimizer ==
    /\ pc = "optimizer"
    /\ optimizer' = [params |-> Parameters(model, likelihood)]
    /\ pc' = "mll"
    /\ UNCHANGED <<nb, use_toeplitz, saved_toeplitz, fast_pred_var, train_x,
                   train_y, test_x, likelihood, model, params, mll,
                   mll_builds, i, grad, applied, output, mll_ret, loss, calls,
                   printed, observed_ax, observed_pred, plot, trace, raised,
                   traceback>>

\* The training loop left out: the run goes on with the prediction cell.
MakeMll_SkipTraining ==
    /\ pc = "mll"
    /\ mll' = [likelihood |-> "likelihood", model |-> "model"]
    /\ mll_builds' = mll_builds + 1
    /\ pc' = "model_eval"
    /\ UNCHANGED <<nb, use_toeplitz, saved_toeplitz, fast_pred_var, train_x,
                   train_y, test_x, likelihood, model, params, optimizer, i,
                   grad, applied, output, mll_ret, loss, calls, printed,
                   observed_ax, observed_pred, plot, trace, raised,
                   traceback>>

\* mll = gpytorch.mlls.ExactMarginalLogLikelihood(likelihood, model)
MakeMll ==
    /\ pc = "mll"
    /\ mll' = [likelihood |-> "likelihood", model |-> "model"]
    /\ mll_builds' = mll_builds + 1
    /\ pc' = IF nb = "simple" THEN "for" ELSE "with_train"
    /\ UNCHANGED <<nb, use_toeplitz, saved_toeplitz, fast_pred_var, train_x,
                   train_y, test_x, likelihood, model, params, optimizer, i,
                   grad, applied, output, mll_ret, loss, calls, printed,
                   observed_ax, observed_pred, plot, trace, raised,
                   traceback>>

\* with gpytorch.settings.use_toeplitz(False): train()    (kiss only)
TrainWithEnter ==
    /\ pc = "with_train"
    /\ saved_toeplitz' = Append(saved_toeplitz, use_toeplitz)
    /\ use_toeplitz' = FALSE
    /\ pc' = "for"
    /\ UNCHANGED <<nb, fast_pred_var, train_x, train_y, test_x, likelihood,
                   model, params, optimizer, mll, mll_builds, i, grad,
                   applied, output, mll_ret, loss, calls, printed,
                   observed_ax, observed_pred, plot, trace, raised,
                   traceback>>

\* The for statement is reached (in kiss: train() is called): a new range
\* iterator.
StartLoop ==
    /\ pc = "for"
    /\ i' = -1
    /\ calls' = [calls EXCEPT !.loop = @ + 1]
    /\ trace' = Enter("training_loop")
    /\ pc' = "loop"
    /\ UNCHANGED <<nb, use_toeplitz, saved_toeplitz, fast_pred_var, train_x,
                   train_y, test_x, likelihood, model, params, optimizer, mll,
                   mll_builds, grad, applied, output, mll_ret, loss, printed,
                   observed_ax, observed_pred, plot, raised,
                   traceback>>

\* A convergence test added to the loop: it stops once the loss is negative.
LoopHead_EarlyStop ==
    /\ pc = "loop"
    /\ IF i + 1 < TrainingIter(nb) /\ loss >= 0
       THEN /\ i' = i + 1
            /\ pc' = "zero_grad"
       ELSE /\ i' = i
            /\ pc' = IF nb = "simple" THEN "model_eval" ELSE "with_train_exit"
    /\ trace' = Enter("training_loop")
    /\ UNCHANGED <<nb, use_toeplitz, saved_toeplitz, fast_pred_var, train_x,
                   train_y, test_x, likelihood, model, params, optimizer, mll,
                   mll_builds, grad, applied, output, mll_ret, loss, calls,
                   printed, observed_ax, observed_pred, plot, raised,
                   traceback>>

\* for i in range(training_iter): the next index, or the end of the loop.
LoopHead ==
    /\ pc = "loop"
    /\ IF i + 1 < TrainingIter(nb)
       THEN /\ i' = i + 1
            /\ pc' = "zero_grad"
       ELSE /\ i' = i
            /\ pc' = IF nb = "simple" THEN "model_eval" ELSE "with_train_exit"
    /\ trace' = Enter("training_loop")
    /\ UNCHANGED <<nb, use_toeplitz, saved_toeplitz, fast_pred_var, train_x,
                   train_y, test_x, likelihood, model, params, optimizer, mll,
                   mll_builds, grad, applied, output, mll_ret, loss, calls,
                   printed, observed_ax, observed_pred, plot, raised,
                   traceback>>

\* optimizer.zero_grad() left out: the .grad buffers are not cleared.
ZeroGrad_Omitted ==
    /\ pc = "zero_grad"
    /\ calls' = [calls EXCEPT !.zero_grad = @ + 1]
    /\ trace' = Enter("training_loop")
    /\ pc' = "forward"
    /\ UNCHANGED <<nb, use_toeplitz, saved_toeplitz, fast_pred_var, train_x,
                   train_y, test_x, likelihood, model, params, optimizer, mll,
                   mll_builds, i, grad, applied, output, mll_ret, loss,
                   printed, observed_ax, observed_pred, plot, raised,
                   traceback>>

\* optimizer.zero_grad()
ZeroGrad ==
    /\ pc = "zero_grad"
    /\ grad' = 0
    /\ calls' = [calls EXCEPT !.zero_grad = @ + 1]
    /\ trace' = Enter("training_loop")
    /\ pc' = "forward"
    /\ UNCHANGED <<nb, use_toeplitz, saved_toeplitz, fast_pred_var, train_x,
                   train_y, test_x, likelihood, model, params, optimizer, mll,
                   mll_builds, i, applied, output, mll_ret, loss, printed,
                   observed_ax, observed_pred, plot, raised,
                   traceback>>

\* output = model(train_x)
Forward ==
    /\ pc = "forward"
    /\ output' = ModelCall("train_x")
    /\ calls' = [calls EXCEPT !.forward = @ + 1]
    /\ trace' = Enter("training_loop")
    /\ pc' = "loss"
    /\ UNCHANGED <<nb, use_toeplitz, saved_toeplitz, fast_pred_var, train_x,
                   train_y, test_x, likelihood, model, params, optimizer, mll,
                   mll_builds, i, grad, applied, mll_ret, loss, printed,
                   observed_ax, observed_pred, plot, raised,
                   traceback>>

\* The sign dropped: loss = mll(output, train_y).
ComputeLoss_NoNegation ==
    /\ pc = "loss"
    /\ \E v \in MllValues :
          /\ mll_ret' = v
          /\ loss' = v
    /\ calls' = [calls EXCEPT !.mll = @ + 1]
    /\ trace' = Enter("training_loop")
    /\ pc' = "backward"
    /\ UNCHANGED <<nb, use_toeplitz, saved_toeplitz, fast_pred_var, train_x,
                   train_y, test_x, likelihood, model, params, optimizer, mll,
                   mll_builds, i, grad, applied, output, printed, observed_ax,
                   observed_pred, plot, raised,
                   traceback>>

\* loss = -mll(output, train_y): the library returns some value v.
ComputeLoss ==
    /\ pc = "loss"
    /\ \E v \in MllValues :
          /\ mll_ret' = v
          /\ loss' = 0 - v
    /\ calls' = [calls EXCEPT !.mll = @ + 1]
    /\ trace' = Enter("training_loop")
    /\ pc' = "backward"
    /\ UNCHANGED <<nb, use_toeplitz, saved_toeplitz, fast_pred_var, train_x,
                   train_y, test_x, likelihood, model, params, optimizer, mll,
                   mll_builds, i, grad, applied, output, printed, observed_ax,
                   observed_pred, plot, raised,
                   traceback>>

\* The losses of the recorded output of each training cell, line by line,
\* in thousandths ('%.3f').
SimpleRecordedLoss ==
    <<7250, 7217, 7187, 7158, 7132, 7107, 7086, 7068, 7051, 7035, 7019,
      7004, 6994, 6991, 6999, 7021, 7026, 7025, 7028, 7028, 7026, 7031,
      7044, 7067, 7099, 7134, 7169, 7205, 7255, 7304, 7369, 7429, 7490,
      7544, 7611, 7682, 7763, 7846, 7935, 8021, 8125, 8231, 8321, 8418,
      8508, 8607, 8710, 8816, 8921, 9033>>

KissRecordedLoss ==
    <<1149, 1090, 1037, 993, 958, 934, 922, 908, 888, 853, 806, 731, 650,
      536, 413, 288, 174, 70, 0 - 13, 0 - 82>>

RecordedLoss(n) ==
    IF n = "simple" THEN SimpleRecordedLoss ELSE KissRecordedLoss

\* loss = -mll(output, train_y) in the recorded run: the library returned
\* the value that the recorded line of this iteration shows.
ComputeLossRecorded ==
    /\ pc = "loss"
    /\ mll_ret' = 0 - RecordedLoss(nb)[i + 1]
    /\ loss' = 0 - mll_ret'
    /\ calls' = [calls EXCEPT !.mll = @ + 1]
    /\ trace' = Enter("training_loop")
    /\ pc' = "backward"
    /\ UNCHANGED <<nb, use_toeplitz, saved_toeplitz, fast_pred_var, train_x,
                   train_y, test_x, likelihood, model, params, optimizer, mll,
                   mll_builds, i, grad, applied, output, printed, observed_ax,
                   observed_pred, plot, raised,
                   traceback>>

\* loss.backward(): gradients are added to the .grad buffers.
Backward ==
    /\ pc = "backward"
    /\ grad' = grad + 1
    /\ calls' = [calls EXCEPT !.backward = @ + 1]
    /\ trace' = Enter("training_loop")
    /\ pc' = "print"
    /\ UNCHANGED <<nb, use_toeplitz, saved_toeplitz, fast_pred_var, train_x,
                   train_y, test_x, likelihood, model, params, optimizer, mll,
                   mll_builds, i, applied, output, mll_ret, loss, printed,
                   observed_ax, observed_pred, plot, raised,
                   traceback>>

\* The label printed as i instead of i + 1.
PrintLine_ZeroBased ==
    /\ pc = "print"
    /\ printed' = Append(printed,
                         [k |-> i, n |-> TrainingIter(nb),
                          loss_steps |-> output.steps,
                          param_steps |-> calls.step])
    /\ calls' = [calls EXCEPT !.print = @ + 1]
    /\ trace' = Enter("training_loop")
    /\ pc' = "step"
    /\ UNCHANGED <<nb, use_toeplitz, saved_toeplitz, fast_pred_var, train_x,
                   train_y, test_x, likelihood, model, params, optimizer, mll,
                   mll_builds, i, grad, applied, output, mll_ret, loss,
                   observed_ax, observed_pred, plot, raised,
                   traceback>>

\* The two last statements of the iteration swapped: optimizer.step() and
\* then print(...), which shows the updated parameters.
PrintLine_AfterStep ==
    /\ pc = "print"
    /\ params' = [p \in DOMAIN params |->
                     IF p \in optimizer.params THEN params[p] + 1
                     ELSE params[p]]
    /\ applied' = grad
    /\ printed' = Append(printed,
                         [k |-> i + 1, n |-> TrainingIter(nb),
                          loss_steps |-> output.steps,
                          param_steps |-> calls.step + 1])
    /\ calls' = [calls EXCEPT !.print = @ + 1, !.step = @ + 1]
    /\ trace' = Enter("training_loop")
    /\ pc' = "loop"
    /\ UNCHANGED <<nb, use_toeplitz, saved_toeplitz, fast_pred_var, train_x,
                   train_y, test_x, likelihood, model, optimizer, mll,
                   mll_builds, i, grad, output, mll_ret, loss, observed_ax,
                   observed_pred, plot, raised,
                   traceback>>

\* print('Iter %d/%d - Loss: ...' % (i + 1, training_iter, loss, ...)): the
\* line keeps its label and which parameter values it shows.
PrintLine ==
    /\ pc = "print"
    /\ printed' = Append(printed,
                         [k |-> i + 1, n |-> TrainingIter(nb),
                          loss_steps |-> output.steps,
                          param_steps |-> calls.step])
    /\ calls' = [calls EXCEPT !.print = @ + 1]
    /\ trace' = Enter("training_loop")
    /\ pc' = "step"
    /\ UNCHANGED <<nb, use_toeplitz, saved_toeplitz, fast_pred_var, train_x,
                   train_y, test_x, likelihood, model, params, optimizer, mll,
                   mll_builds, i, grad, applied, output, mll_ret, loss,
                   observed_ax, observed_pred, plot, raised,
                   traceback>>

\* optimizer.step(): every parameter of the optimizer is updated from .grad.
Step ==
    /\ pc = "step"
    /\ params' = [p \in DOMAIN params |->
                     IF p \in optimizer.params THEN params[p] + 1
                     ELSE params[p]]
    /\ applied' = grad
    /\ calls' = [calls EXCEPT !.step = @ + 1]
    /\ trace' = Enter("training_loop")
    /\ pc' = "loop"
    /\ UNCHANGED <<nb, use_toeplitz, saved_toeplitz, fast_pred_var, train_x,
                   train_y, test_x, likelihood, model, optimizer, mll,
                   mll_builds, i, grad, output, mll_ret, loss, printed,
                   observed_ax, observed_pred, plot, raised,
                   traceback>>

\* The statements of an iteration that call into the library and so may
\* raise: the four steps, optimizer.zero_grad() and the tensor accesses of
\* the print statement.
MayRaise == {"zero_grad", "forward", "loss", "backward", "print", "step"}

\* The iteration wrapped in try/except with the loop continuing: the
\* exception is recorded and the next iteration starts.
Raise_Swallowed ==
    /\ pc \in MayRaise
    /\ raised' = [call |-> pc, i |-> i, calls |-> calls, params |-> params]
    /\ pc' = "loop"
    /\ UNCHANGED <<nb, use_toeplitz, saved_toeplitz, fast_pred_var, train_x,
                   train_y, test_x, likelihood, model, params, optimizer, mll,
                   mll_builds, i, grad, applied, output, mll_ret, loss, calls,
                   printed, observed_ax, observed_pred, plot, trace,
                   traceback>>

\* A library call of the loop raises: no handler in the loop, so the
\* exception leaves it.  simple: it ends the run of the cell and of the
\* notebook.  kiss: it leaves train() and is caught by %time, which displays
\* the traceback and returns; the with block is then left normally and the
\* run goes on.  The statement loss = -mll(output, train_y) makes two
\* calls: either mll raises, or mll returns some value v and the negation
\* of it raises, and then loss is not rebound.
Raise ==
    /\ pc \in MayRaise
    /\ \/ UNCHANGED mll_ret
       \/ /\ pc = "loss"
          /\ \E v \in MllValues : mll_ret' = v
    /\ IF nb = "simple"
       THEN /\ raised' = [call |-> pc, i |-> i, calls |-> calls,
                          params |-> params]
            /\ pc' = "raised"
            /\ UNCHANGED traceback
       ELSE /\ traceback' = [call |-> pc, i |-> i, calls |-> calls,
                             params |-> params]
            /\ pc' = "with_train_exit"
            /\ UNCHANGED raised
    /\ UNCHANGED <<nb, use_toeplitz, saved_toeplitz, fast_pred_var, train_x,
                   train_y, test_x, likelihood, model, params, optimizer, mll,
                   mll_builds, i, grad, applied, output, loss, calls,
                   printed, observed_ax, observed_pred, plot, trace>>

\* The end of the with block around train()    (kiss only)
TrainWithExit ==
    /\ pc = "with_train_exit"
    /\ use_toeplitz' = saved_toeplitz[Len(saved_toeplitz)]
    /\ saved_toeplitz' = SubSeq(saved_toeplitz, 1, Len(saved_toeplitz) - 1)
    /\ pc' = "model_eval"
    /\ UNCHANGED <<nb, fast_pred_var, train_x, train_y, test_x, likelihood,
                   model, params, optimizer, mll, mll_builds, i, grad,
                   applied, output, mll_ret, loss, calls, printed,
                   observed_ax, observed_pred, plot, trace, raised,
                   traceback>>

(***************************************************************************)
(* Prediction cell.                                                        *)
(***************************************************************************)
\* model.eval() left out: only likelihood.eval() follows.
ModelEval_Omitted ==
    /\ pc = "model_eval"
    /\ trace' = Enter("eval_mode")
    /\ pc' = "likelihood_eval"
    /\ UNCHANGED <<nb, use_toeplitz, saved_toeplitz, fast_pred_var, train_x,
                   train_y, test_x, likelihood, model, params, optimizer, mll,
                   mll_builds, i, grad, applied, output, mll_ret, loss, calls,
                   printed, observed_ax, observed_pred, plot, raised,
                   traceback>>

\* model.eval(): the model and its sub-modules, the likelihood among them.
ModelEval ==
    /\ pc = "model_eval"
    /\ model' = SetMode(model, FALSE)
    /\ likelihood' = SetMode(likelihood, FALSE)
    /\ trace' = Enter("eval_mode")
    /\ pc' = "likelihood_eval"
    /\ UNCHANGED <<nb, use_toeplitz, saved_toeplitz, fast_pred_var, train_x,
                   train_y, test_x, params, optimizer, mll, mll_builds, i,
                   grad, applied, output, mll_ret, loss, calls, printed,
                   observed_ax, observed_pred, plot, raised,
                   traceback>>

LikelihoodEval ==
    /\ pc = "likelihood_eval"
    /\ likelihood' = SetMode(likelihood, FALSE)
    /\ trace' = Enter("eval_mode")
    /\ pc' = IF nb = "simple" THEN "test_x" ELSE "subplots"
    /\ UNCHANGED <<nb, use_toeplitz, saved_toeplitz, fast_pred_var, train_x,
                   train_y, test_x, model, params, optimizer, mll, mll_builds,
                   i, grad, applied, output, mll_ret, loss, calls, printed,
                   observed_ax, observed_pred, plot, raised,
                   traceback>>

\* f, observed_ax = plt.subplots(1, 1, figsize=(4, 3)): an empty figure.
\* The kiss notebook creates it before the prediction, the simple notebook
\* in its plotting cell.
Subplots ==
    /\ pc = "subplots"
    /\ observed_ax' = [artists |-> 0]
    /\ pc' = IF nb = "simple" THEN "ax_plot" ELSE "test_x"
    /\ UNCHANGED <<nb, use_toeplitz, saved_toeplitz, fast_pred_var, train_x,
                   train_y, test_x, likelihood, model, params, optimizer, mll,
                   mll_builds, i, grad, applied, output, mll_ret, loss, calls,
                   printed, observed_pred, plot, trace, raised,
                   traceback>>

MakeTestX ==
    /\ pc = "test_x"
    /\ test_x' = IF nb = "simple" THEN SimpleTestX ELSE KissTestX
    /\ pc' = "with_pred"
    /\ UNCHANGED <<nb, use_toeplitz, saved_toeplitz, fast_pred_var, train_x,
                   train_y, likelihood, model, params, optimizer, mll,
                   mll_builds, i, grad, applied, output, mll_ret, loss, calls,
                   printed, observed_ax, observed_pred, plot, trace, raised,
                   traceback>>

\* simple: with gpytorch.fast_pred_var():
\* kiss:   with gpytorch.fast_pred_var(), gpytorch.settings.use_toeplitz(False):
PredWithEnter ==
    /\ pc = "with_pred"
    /\ fast_pred_var' = TRUE
    /\ IF nb = "kiss"
       THEN /\ saved_toeplitz' = Append(saved_toeplitz, use_toeplitz)
            /\ use_toeplitz' = FALSE
       ELSE UNCHANGED <<use_toeplitz, saved_toeplitz>>
    /\ pc' = "predict"
    /\ UNCHANGED <<nb, train_x, train_y, test_x, likelihood, model, params,
                   optimizer, mll, mll_builds, i, grad, applied, output,
                   mll_ret, loss, calls, printed, observed_ax, observed_pred,
                   plot, trace, raised,
                   traceback>>

\* A tensor over the points of x that alternates between two values.
Alternate(x, a, b) == [k \in 1..Len(x) |-> IF k % 2 = 1 THEN a ELSE b]

\* observed_pred = likelihood(model(test_x)): the library returns a
\* GaussianRandomVariable with some mean and standard deviation at each
\* test point.
Predict ==
    /\ pc = "predict"
    /\ \E m1 \in MeanValues, m2 \in MeanValues,
          s1 \in StdValues, s2 \in StdValues :
          observed_pred' = [call |-> ModelCall("test_x"),
                            through_likelihood |-> TRUE,
                            fast_pred_var |-> fast_pred_var,
                            mean |-> Alternate(Tensor(test_x), m1, m2),
                            std |-> Alternate(Tensor(test_x), s1, s2)]
    /\ trace' = Enter("predict")
    /\ pc' = "with_pred_exit"
    /\ UNCHANGED <<nb, use_toeplitz, saved_toeplitz, fast_pred_var, train_x,
                   train_y, test_x, likelihood, model, params, optimizer, mll,
                   mll_builds, i, grad, applied, output, mll_ret, loss, calls,
                   printed, observed_ax, plot, raised,
                   traceback>>

PredWithExit ==
    /\ pc = "with_pred_exit"
    /\ fast_pred_var' = FALSE
    /\ IF nb = "kiss"
       THEN /\ use_toeplitz' = saved_toeplitz[Len(saved_toeplitz)]
            /\ saved_toeplitz' = SubSeq(saved_toeplitz, 1,
                                        Len(saved_toeplitz) - 1)
       ELSE UNCHANGED <<use_toeplitz, saved_toeplitz>>
    /\ pc' = IF nb = "simple" THEN "subplots" ELSE "ax_plot"
    /\ UNCHANGED <<nb, train_x, train_y, test_x, likelihood, model, params,
                   optimizer, mll, mll_builds, i, grad, applied, output,
                   mll_ret, loss, calls, printed, observed_ax, observed_pred,
                   plot, trace, raised,
                   traceback>>

(***************************************************************************)
(* Plotting.                                                               *)
(***************************************************************************)
\* The band drawn against the training inputs instead of the test inputs.
Artists_BandOverTrainX(rand_var) ==
    LET region == confidence_region(rand_var)
    IN  [stars |-> [x |-> train_x, y |-> train_y],
         line |-> [x |-> test_x, y |-> rand_var.mean],
         band |-> [x |-> train_x, lower |-> region.lower,
                   upper |-> region.upper]]

\* The body of ax_plot: the three artists it draws.
Artists(rand_var) ==
    LET region == confidence_region(rand_var)
    IN  [stars |-> [x |-> train_x, y |-> train_y],
         line |-> [x |-> test_x, y |-> rand_var.mean],
         band |-> [x |-> test_x, lower |-> region.lower,
                   upper |-> region.upper]]

\* ax_plot(observed_ax, observed_pred, 'Observed Values (Likelihood)')
AxPlot ==
    /\ pc = "ax_plot"
    /\ plot' = Artists(observed_pred)
    /\ observed_ax' = [artists |-> 3]
    /\ trace' = Enter("plot")
    /\ pc' = "done"
    /\ UNCHANGED <<nb, use_toeplitz, saved_toeplitz, fast_pred_var, train_x,
                   train_y, test_x, likelihood, model, params, optimizer, mll,
                   mll_builds, i, grad, applied, output, mll_ret, loss, calls,
                   printed, observed_pred, raised,
                   traceback>>

Next ==
    \/ MakeTrainX
    \/ MakeTrainY
    \/ MakeLikelihood
    \/ MakeModel
    \/ ModelTrain
    \/ LikelihoodTrain
    \/ MakeOptimizer
    \/ MakeMll
    \/ TrainWithEnter
    \/ StartLoop
    \/ LoopHead
    \/ ZeroGrad
    \/ Forward
    \/ ComputeLoss
    \/ Backward
    \/ PrintLine
    \/ Step
    \/ Raise
    \/ TrainWithExit
    \/ ModelEval
    \/ LikelihoodEval
    \/ Subplots
    \/ MakeTestX
    \/ PredWithEnter
    \/ Predict
    \/ PredWithExit
    \/ AxPlot

\* The run whose output the notebooks record: no call raised, and the
\* losses were the recorded ones.
NextRecorded ==
    \/ MakeTrainX
    \/ MakeTrainY
    \/ MakeLikelihood
    \/ MakeModel
    \/ ModelTrain
    \/ LikelihoodTrain
    \/ MakeOptimizer
    \/ MakeMll
    \/ TrainWithEnter
    \/ StartLoop
    \/ LoopHead
    \/ ZeroGrad
    \/ Forward
    \/ ComputeLossRecorded
    \/ Backward
    \/ PrintLine
    \/ Step
    \/ TrainWithExit
    \/ ModelEval
    \/ LikelihoodEval
    \/ Subplots
    \/ MakeTestX
    \/ PredWithEnter
    \/ Predict
    \/ PredWithExit
    \/ AxPlot

SpecRecorded == Init /\ [][NextRecorded]_vars

Spec == Init /\ [][Next]_vars

(***************************************************************************)
(* Properties.                                                             *)
(***************************************************************************)
IsPrefix(s, t) == Len(s) <= Len(t) /\ \A k \in 1..Len(s) : s[k] = t[k]

\* The statements of one iteration, in the order of the code, and the
\* call each one completes.
LoopPcs == <<"zero_grad", "forward", "loss", "backward", "print", "step">>
LoopCalls == <<"zero_grad", "forward", "mll", "backward", "print", "step">>

\* The exception a call of the loop raised, None without one.
Exception == IF raised # None THEN raised ELSE traceback

\* The statement at which the run stands, or at which the loop was left.
At == IF Exception # None THEN Exception.call ELSE pc

\* How many statements of the current iteration are complete.
Completed ==
    IF \E j \in 1..Len(LoopPcs) : LoopPcs[j] = At
    THEN (CHOOSE j \in 1..Len(LoopPcs) : LoopPcs[j] = At) - 1
    ELSE 0

\* The run is past the loop.
PastLoop ==
    pc \in {"with_train_exit", "model_eval", "likelihood_eval", "subplots",
            "test_x", "with_pred", "predict", "with_pred_exit", "ax_plot",
            "done"}

\* The loop has run to its end: the run is past it and no call raised.
AfterLoop == PastLoop /\ Exception = None

\* C1: a run passes through the phases dataset, instantiate, train mode,
\* training loop, eval mode, prediction, plot in this order, each once; a
\* complete run has passed through all of them; the prediction is computed
\* after the last optimizer.step (the 50th or 20th when no call raised), and
\* nothing is plotted before the prediction exists.
C1_PhaseOrder ==
    /\ IsPrefix(trace, PhaseOrder)
    /\ pc = "done" => trace = PhaseOrder
    /\ observed_pred # None =>
          /\ PastLoop
          /\ calls.step = observed_pred.call.steps
          /\ Exception = None =>
                observed_pred.call.steps = TrainingIter(nb)
    /\ plot # None => observed_pred # None

C1_Witness ==
    /\ pc = "done"
    /\ nb = "kiss"
    /\ plot # None
    /\ Len(trace) = 7
    /\ Exception = None
    /\ observed_pred.call.steps = 20

\* C2: the loop ends after exactly training_iter iterations (50 simple, 20
\* kiss, the for statement reached once), whatever the losses were: never
\* more optimizer.step calls than that, and exactly that many once the loop
\* has run to its end.
C2_FixedLength ==
    /\ TrainingIter("simple") = 50
    /\ TrainingIter("kiss") = 20
    /\ calls.step <= TrainingIter(nb)
    /\ calls.loop <= 1
    /\ AfterLoop =>
          /\ calls.step = TrainingIter(nb)
          /\ calls.zero_grad = TrainingIter(nb)
          /\ calls.loop = 1
          /\ i = TrainingIter(nb) - 1

C2_Witness ==
    /\ pc = "model_eval"
    /\ nb = "simple"
    /\ calls.step = 50
    /\ loss = 0 - MaxMll

\* C3: every iteration runs zero_grad, model call, loss, backward and step
\* in this order, each once: at any point the statements before the current
\* one have completed once more than the steps taken and the others exactly
\* as often; the gradient buffers hold exactly one backward pass when a step
\* is taken.
C3_IterationOrder ==
    /\ \A j \in 1..Len(LoopCalls) :
          calls[LoopCalls[j]] =
             IF j <= Completed THEN calls.step + 1 ELSE calls.step
    /\ grad <= 1
    /\ pc \in {"print", "step"} => grad = 1
    /\ calls.step > 0 => applied = 1

C3_Witness ==
    /\ pc = "step"
    /\ i = 1
    /\ grad = 1
    /\ applied = 1
    /\ calls.zero_grad = 2

\* C4: whenever the model is called, model and likelihood are in the same
\* mode: train mode for every call of the training loop, whose output is
\* the prior returned by forward, and eval mode for the prediction call,
\* whose result is the posterior passed through the likelihood.
C4_SameMode ==
    /\ pc \in {"forward", "predict"} => model.training = likelihood.training
    /\ pc = "forward" => model.training
    /\ pc = "predict" => ~model.training
    /\ output # None =>
          /\ output.model_training
          /\ output.likelihood_training
          /\ output.kind = "prior"
    /\ observed_pred # None =>
          /\ ~observed_pred.call.model_training
          /\ ~observed_pred.call.likelihood_training
          /\ observed_pred.call.kind = "posterior"
          /\ observed_pred.through_likelihood

C4_Witness ==
    /\ pc = "with_pred_exit"
    /\ nb = "simple"
    /\ output # None
    /\ observed_pred # None
    /\ observed_pred.call.kind = "posterior"

\* C5: once a library call of an iteration has raised, the run has left the
\* loop for good: the raising call and the statements after it in that
\* iteration are not completed, no further call of the loop is ever made,
\* and every parameter keeps the value left by the last completed
\* optimizer.step.
C5_NoFailureHandling ==
    /\ raised # None =>
          /\ nb = "simple"
          /\ pc = "raised"
          /\ observed_pred = None
          /\ plot = None
    /\ traceback # None =>
          /\ nb = "kiss"
          /\ PastLoop
    /\ Exception # None =>
          /\ pc # "loop"
          /\ \A j \in 1..Len(LoopPcs) : pc # LoopPcs[j]
          /\ i = Exception.i
          /\ calls = Exception.calls
          /\ params = Exception.params
          /\ \A j \in 1..Len(LoopCalls) :
                calls[LoopCalls[j]] =
                   IF j <= Completed THEN Exception.i + 1 ELSE Exception.i
          /\ \A p \in DOMAIN params : params[p] = calls.step

C5_Witness ==
    /\ traceback # None
    /\ nb = "kiss"
    /\ pc = "done"
    /\ traceback.call = "backward"
    /\ traceback.i = 3
    /\ calls.step = 3
    /\ calls.mll = 4
    /\ params["log_outputscale"] = 3

\* A tensor of n points k/(n-1), k = 0..n-1, from 0 to 1 inclusive.
IsUnitGrid(x, n) ==
    /\ Len(x) = n
    /\ \A k \in 1..Len(x) : RatEq(x[k], <<k - 1, n - 1>>)
    /\ RatEq(x[1], <<0, 1>>)
    /\ RatEq(x[Len(x)], <<1, 1>>)

\* Neighbouring points of x are d apart.
Spaced(x, d) == \A k \in 1..(Len(x) - 1) : RatEq(RatSub(x[k + 1], x[k]), d)

\* C6: the datasets have the stated sizes and spacing: simple trains on 11
\* points 1/10 apart, kiss on 1000 points 1/999 apart, both test on 51
\* points 0.02 apart, all from 0 to 1 inclusive; train_y has one label per
\* training input.  The values are examined where each tensor has just been
\* built; the names are never rebound afterwards.
C6_Datasets ==
    /\ (pc = "train_y" /\ nb = "simple") =>
          /\ IsUnitGrid(Tensor(train_x), 11)
          /\ Spaced(Tensor(train_x), <<1, 10>>)
    /\ (pc = "train_y" /\ nb = "kiss") =>
          /\ IsUnitGrid(Tensor(train_x), 1000)
          /\ Spaced(Tensor(train_x), <<1, 999>>)
    /\ pc = "with_pred" =>
          /\ IsUnitGrid(Tensor(test_x), 51)
          /\ Spaced(Tensor(test_x), <<2, 100>>)
    /\ pc = "likelihood" =>
          LET labels == Labels(train_y)
              inputs == Tensor(train_x)
          IN  /\ Len(labels) = Len(inputs)
              /\ \A k \in 1..Len(labels) : labels[k].x = inputs[k]
    /\ train_x # None =>
          /\ pc # "train_x"
          /\ train_x = [start |-> 0, end |-> 1,
                        steps |-> IF nb = "simple" THEN 11 ELSE 1000]
    /\ train_y # None =>
          /\ pc \notin {"train_x", "train_y"}
          /\ train_y.x = train_x
    /\ test_x # None =>
          /\ PastLoop
          /\ pc # "test_x"
          /\ test_x = [start |-> 0, end |-> 1, steps |-> 51]

C6_Witness ==
    /\ nb = "simple"
    /\ train_x # None
    /\ train_y # None
    /\ test_x # None
    /\ Len(Tensor(train_x)) = 11
    /\ Len(Labels(train_y)) = 11
    /\ Len(Tensor(test_x)) = 51

\* C7: in each notebook the noise added to the targets has the stated
\* variance: the square of the factor multiplying the standard-normal
\* sample equals b of the stated N(0, b).
C7_StatedNoise ==
    train_y # None =>
       LET labels == Labels(train_y)
       IN  \A k \in 1..Len(labels) :
              RatEq(RatMul(labels[k].scale, labels[k].scale), StatedNoise(nb))

\* C8: in the kiss notebook Toeplitz-structured covariance computation is
\* enabled during every model call: the training forward passes and the
\* prediction call.
C8_ToeplitzEnabled ==
    nb = "kiss" =>
       /\ pc \in {"forward", "predict"} => use_toeplitz
       /\ output # None => output.toeplitz
       /\ observed_pred # None => observed_pred.call.toeplitz

\* C9: the loss is the negated marginal log likelihood: mll is built once,
\* from the likelihood and the model being trained; in every iteration
\* loss + mll(output, train_y) = 0 with output the model's output on the
\* training inputs in that same iteration.  (A loss statement that raised
\* bound no loss.)
C9_NegatedMll ==
    /\ mll_builds <= 1
    /\ mll # None =>
          /\ mll_builds = 1
          /\ mll.likelihood = "likelihood"
          /\ mll.model = "model"
    /\ (Exception = None \/ Exception.call # "loss") => loss + mll_ret = 0
    /\ pc \in {"backward", "print", "step"} =>
          /\ loss + mll_ret = 0
          /\ calls.mll = i + 1
          /\ calls.forward = i + 1
          /\ output.iter = i
          /\ output.input = "train_x"
          /\ output.steps = i

C9_Witness ==
    /\ pc = "backward"
    /\ i = 2
    /\ mll_ret = 0 - MaxMll
    /\ loss = MaxMll
    /\ loss > 0

\* C10: the plotted band is the confidence region, 2 standard deviations
\* below and above the predictive mean: at every test point
\* lower <= mean <= upper and upper - mean = mean - lower; the mean line and
\* both bounds are drawn against the same test inputs, one value per test
\* point (51).
C10_ConfidenceBand ==
    plot # None =>
       /\ plot.line.x = test_x
       /\ plot.band.x = test_x
       /\ Len(Tensor(plot.line.x)) = 51
       /\ Len(plot.line.y) = 51
       /\ Len(Tensor(plot.band.x)) = 51
       /\ Len(plot.band.lower) = 51
       /\ Len(plot.band.upper) = 51
       /\ plot.line.y = observed_pred.mean
       /\ \A k \in 1..Len(plot.line.y) :
             /\ plot.band.lower[k] <= plot.line.y[k]
             /\ plot.line.y[k] <= plot.band.upper[k]
             /\ plot.band.upper[k] - plot.line.y[k] =
                   plot.line.y[k] - plot.band.lower[k]
             /\ plot.band.upper[k] - plot.line.y[k] =
                   2 * observed_pred.std[k]

C10_Witness ==
    /\ plot # None
    /\ nb = "kiss"
    /\ plot.band.lower[1] < plot.line.y[1]
    /\ plot.band.lower[2] = plot.band.upper[2]
    /\ plot.line.y[1] # plot.line.y[2]

\* C11: the loop prints exactly one progress line per iteration, labelled
\* 'Iter k/N' with k = i + 1: the labels are 1, 2, ..., N with no gap and no
\* repeat, N is training_iter on every line, and a finished loop has printed
\* as many lines as the recorded output holds (50 simple, 20 kiss).
C11_ProgressLines ==
    /\ Len(printed) = calls.print
    /\ \A j \in 1..Len(printed) :
          /\ printed[j].k = j
          /\ printed[j].n = TrainingIter(nb)
    /\ pc = "print" => Len(printed) = i
    /\ pc \in {"step", "loop"} => Len(printed) = i + 1
    /\ AfterLoop =>
          /\ Len(printed) = TrainingIter(nb)
          /\ Len(printed) = Len(RecordedLoss(nb))
    /\ Len(SimpleRecordedLoss) = 50
    /\ Len(KissRecordedLoss) = 20

C11_Witness ==
    /\ AfterLoop
    /\ nb = "simple"
    /\ Len(printed) = 50
    /\ printed[50].k = 50
    /\ printed[50].n = 50

\* C12: the line of iteration k is printed after backward and before
\* optimizer.step, so the loss and the parameters it shows are those after
\* exactly k - 1 steps: the first line shows the initial parameters, and the
\* parameters left by the last step are never printed.
C12_PreStepValues ==
    /\ pc = "print" =>
          /\ calls.backward = i + 1
          /\ calls.step = i
    /\ \A j \in 1..Len(printed) :
          /\ printed[j].loss_steps = printed[j].k - 1
          /\ printed[j].param_steps = printed[j].k - 1
    /\ printed # <<>> => printed[1].param_steps = 0
    /\ AfterLoop =>
          /\ \A p \in DOMAIN params : params[p] = TrainingIter(nb)
          /\ \A j \in 1..Len(printed) :
                printed[j].param_steps < TrainingIter(nb)

C12_Witness ==
    /\ AfterLoop
    /\ nb = "kiss"
    /\ Len(printed) = 20
    /\ printed[1].param_steps = 0
    /\ printed[20].param_steps = 19
    /\ params["log_outputscale"] = 20

\* C13: the parameter group built from model.parameters() covers every
\* trainable parameter, the likelihood's log_noise and (kiss) the registered
\* log_outputscale included, so every optimizer.step updates all of them.
C13_AllParametersOptimized ==
    optimizer # None =>
       /\ optimizer.params = DOMAIN params
       /\ "likelihood.log_noise" \in optimizer.params
       /\ nb = "kiss" => "log_outputscale" \in optimizer.params
       /\ \A p \in DOMAIN params : params[p] = calls.step

C13_Witness ==
    /\ nb = "kiss"
    /\ calls.step = 1
    /\ pc = "loop"
    /\ params["likelihood.log_noise"] = 1
    /\ params["log_outputscale"] = 1
    /\ params["base_covar_module.log_lengthscale"] = 1

\* C14: in each notebook's recorded run the loss printed at the final
\* iteration is lower than the loss printed at the first iteration.
C14_LossImproves ==
    (pc = "step" /\ Len(printed) = TrainingIter(nb)) =>
       loss < RecordedLoss(nb)[1]

====
